---------------------------- MODULE Spec2Model ----------------------------
(***************************************************************************)
(* Model of parse_solar_system_data.py: the batch script that turns the    *)
(* spreadsheet of celestial bodies into celestial_bodies.json.             *)
(*                                                                         *)
(* Text.  A Python str is modelled as the tuple of its characters.  TLC's  *)
(* string literals are ASCII only, so a Cyrillic letter is written as the  *)
(* token "ru_<translit>" (lower case) or "RU_<translit>" (upper case):     *)
(* "год" is <<"ru_g","ru_o","ru_d">>.  Latin letters, digits, "." and " "  *)
(* are themselves, so Latin "a" and Cyrillic "ru_a" stay different.        *)
(*                                                                         *)
(* Values.  Every value that is not text is a tuple that starts with a     *)
(* tag no character equals: None, NaN (pandas' missing cell), True, a      *)
(* number <<"num", n, d>> (the exact rational n/d in lowest terms; float   *)
(* rounding is not modelled), an opaque float literal <<"float", "...">>   *)
(* copied from a table, and <<"raise", E>> for an uncaught exception E.    *)
(***************************************************************************)
EXTENDS Integers, Sequences, FiniteSets, TLC

VARIABLES
    pc,                \* position in the script, or in the harness of a pure function
    error,             \* the uncaught exception that ended the run, or "none"
    columns,           \* df.columns
    idx,               \* number of rows df.iterrows() has yielded
    row,               \* the loop variable `row`
    body,              \* the loop variable `body`
    celestial_bodies,  \* the dict celestial_bodies
    output,            \* the content of celestial_bodies.json
    writes,            \* how many times celestial_bodies.json has been written
    period_str,        \* parse_period's argument
    retval             \* parse_period's return value

vars == <<pc, error, columns, idx, row, body, celestial_bodies, output, writes,
          period_str, retval>>

----------------------------------------------------------------------------
(* Values *)

None == <<"None">>
NaN == <<"NaN">>
True == <<"True">>
isna(v) == v = NaN \/ v = None

notna(v) == ~isna(v)

Raise(exc) == <<"raise", exc>>

IsRaise(v) == v # <<>> /\ v[1] = "raise"

Abs(n) == IF n < 0 THEN -n ELSE n

RECURSIVE GCD(_, _)
GCD(a, b) == IF b = 0 THEN a ELSE GCD(b, a % b)

\* the number n/d (d > 0), in lowest terms
Frac(n, d) == LET g == GCD(Abs(n), d) IN <<"num", n \div g, d \div g>>

Num(n) == Frac(n, 1)

IsNum(v) == v # <<>> /\ v[1] = "num"

FracMul(v, n, d) == Frac(v[2] * n, v[3] * d)

----------------------------------------------------------------------------
(* Text *)

Digits == {"0", "1", "2", "3", "4", "5", "6", "7", "8", "9"}

DigitValue(c) ==
    CASE c = "0" -> 0 [] c = "1" -> 1 [] c = "2" -> 2 [] c = "3" -> 3 [] c = "4" -> 4
      [] c = "5" -> 5 [] c = "6" -> 6 [] c = "7" -> 7 [] c = "8" -> 8 [] c = "9" -> 9

\* <<lower, upper>> of every cased letter
LetterCase ==
    { <<"a", "A">>, <<"b", "B">>, <<"c", "C">>, <<"d", "D">>,
      <<"e", "E">>, <<"f", "F">>, <<"g", "G">>, <<"h", "H">>,
      <<"i", "I">>, <<"j", "J">>, <<"k", "K">>, <<"l", "L">>,
      <<"m", "M">>, <<"n", "N">>, <<"o", "O">>, <<"p", "P">>,
      <<"q", "Q">>, <<"r", "R">>, <<"s", "S">>, <<"t", "T">>,
      <<"u", "U">>, <<"v", "V">>, <<"w", "W">>, <<"x", "X">>,
      <<"y", "Y">>, <<"z", "Z">>, <<"ru_a", "RU_a">>, <<"ru_b", "RU_b">>,
      <<"ru_v", "RU_v">>, <<"ru_g", "RU_g">>, <<"ru_d", "RU_d">>, <<"ru_e", "RU_e">>,
      <<"ru_yo", "RU_yo">>, <<"ru_zh", "RU_zh">>, <<"ru_z", "RU_z">>, <<"ru_i", "RU_i">>,
      <<"ru_j", "RU_j">>, <<"ru_k", "RU_k">>, <<"ru_l", "RU_l">>, <<"ru_m", "RU_m">>,
      <<"ru_n", "RU_n">>, <<"ru_o", "RU_o">>, <<"ru_p", "RU_p">>, <<"ru_r", "RU_r">>,
      <<"ru_s", "RU_s">>, <<"ru_t", "RU_t">>, <<"ru_u", "RU_u">>, <<"ru_f", "RU_f">>,
      <<"ru_h", "RU_h">>, <<"ru_c", "RU_c">>, <<"ru_ch", "RU_ch">>, <<"ru_sh", "RU_sh">>,
      <<"ru_sch", "RU_sch">>, <<"ru_hard", "RU_hard">>, <<"ru_y", "RU_y">>,
      <<"ru_soft", "RU_soft">>, <<"ru_eh", "RU_eh">>, <<"ru_yu", "RU_yu">>,
      <<"ru_ya", "RU_ya">> }

IsLetter(c) == \E p \in LetterCase : c = p[1] \/ c = p[2]

LowerChar(c) ==
    IF \E p \in LetterCase : p[2] = c THEN (CHOOSE p \in LetterCase : p[2] = c)[1] ELSE c

UpperChar(c) ==
    IF \E p \in LetterCase : p[1] = c THEN (CHOOSE p \in LetterCase : p[1] = c)[2] ELSE c

\* str.lower()
Lower(s) == [i \in 1..Len(s) |-> LowerChar(s[i])]

\* str.upper()
Upper(s) == [i \in 1..Len(s) |-> UpperChar(s[i])]

\* str.title(): a letter that follows a letter is lower-cased, any other letter upper-cased
Title(s) ==
    [i \in 1..Len(s) |->
        IF i > 1 /\ IsLetter(s[i - 1]) THEN LowerChar(s[i]) ELSE UpperChar(s[i])]

\* sub in s
Contains(s, sub) ==
    \E i \in 1..(Len(s) - Len(sub) + 1) : SubSeq(s, i, i + Len(sub) - 1) = sub

\* str(v) of a cell that is text or missing
Str(v) == IF v = NaN THEN <<"n","a","n">> ELSE v

----------------------------------------------------------------------------
(* parse_period *)

IsNumberChar(c) == c \in Digits \cup {"."}

\* re.findall(r'[\d.]+', s): whether there is a match
HasNumbers(s) == \E i \in 1..Len(s) : IsNumberChar(s[i])

\* numbers[0]: the first maximal run of digits and dots
FirstNumber(s) ==
    LET first == CHOOSE i \in 1..Len(s) :
                     /\ IsNumberChar(s[i])
                     /\ \A j \in 1..(i - 1) : ~IsNumberChar(s[j])
        last  == CHOOSE k \in first..Len(s) :
                     /\ \A j \in first..k : IsNumberChar(s[j])
                     /\ (k = Len(s) \/ ~IsNumberChar(s[k + 1]))
    IN  SubSeq(s, first, last)

IsDigit(c) == c \in Digits

\* whether float(t) accepts a text t of digits and dots: at most one dot, some digit
FloatAccepts(t) ==
    /\ Cardinality({i \in 1..Len(t) : t[i] = "."}) <= 1
    /\ \E i \in 1..Len(t) : IsDigit(t[i])

RECURSIVE DigitsValue(_)
DigitsValue(ds) ==
    IF ds = <<>> THEN 0
    ELSE 10 * DigitsValue(SubSeq(ds, 1, Len(ds) - 1)) + DigitValue(ds[Len(ds)])

RECURSIVE Pow10(_)
Pow10(k) == IF k = 0 THEN 1 ELSE 10 * Pow10(k - 1)

\* float(t) of an accepted text: its digits over 10 ^ (number of digits after the dot)
FloatValue(t) ==
    LET dots == {i \in 1..Len(t) : t[i] = "."}
        after == IF dots = {} THEN 0 ELSE Len(t) - (CHOOSE i \in dots : TRUE)
    IN  Frac(DigitsValue(SelectSeq(t, IsDigit)), Pow10(after))

\* float(numbers[0])
float(t) == IF FloatAccepts(t) THEN FloatValue(t) ELSE Raise("ValueError")

HourMarkers == { <<"ru_ch","ru_a","ru_s">>, <<"ru_ch">> }
DayMarkers == { <<"ru_d","ru_n","ru_e","ru_j">>, <<"ru_s","ru_u","ru_t","ru_o","ru_k">>, <<"ru_d">> }
YearMarkers == { <<"ru_l","ru_e","ru_t">>, <<"ru_g","ru_o","ru_d">> }
MonthMarkers == { <<"ru_m","ru_e","ru_s","ru_ya","ru_c">> }

ContainsAny(s, markers) == \E m \in markers : Contains(s, m)

\* the unit branches: value in the unit read off the text, as days
ToDays(value, s) ==
    IF ContainsAny(s, HourMarkers) THEN FracMul(value, 1, 24)
    ELSE IF ContainsAny(s, DayMarkers) THEN value
    ELSE IF ContainsAny(s, YearMarkers) THEN FracMul(value, 36525, 100)
    ELSE IF ContainsAny(s, MonthMarkers) THEN FracMul(value, 3044, 100)
    ELSE value

parse_period(cell) ==
    IF isna(cell) THEN None
    ELSE LET s == Str(cell) IN
         IF ~HasNumbers(s) THEN None
         ELSE LET value == float(FirstNumber(s)) IN
              IF IsRaise(value) THEN value ELSE ToDays(value, s)

----------------------------------------------------------------------------
(* Inputs of parse_period *)

\* the longest period text, in pieces
MaxPieces == 4

Pieces ==
    { <<"1">>, <<"2">>, <<".">>, <<" ">>,
      <<"ru_ch","ru_a","ru_s">>, <<"ru_d","ru_n","ru_e","ru_j">>, <<"ru_s","ru_u","ru_t","ru_o","ru_k">>, <<"ru_l","ru_e","ru_t">>, <<"ru_g","ru_o","ru_d">>, <<"ru_m","ru_e","ru_s","ru_ya","ru_c">> }

RECURSIVE TextsOfPieces(_)
TextsOfPieces(k) ==
    IF k = 0 THEN {<<>>}
    ELSE LET shorter == TextsOfPieces(k - 1)
         IN  shorter \cup {t \o p : t \in shorter, p \in Pieces}

PeriodExamples ==
    { <<"2","4"," ","ru_ch","ru_a","ru_s","ru_a">>, <<"3","6","5",".","2","5"," ","ru_d","ru_n","ru_e","ru_j">>, <<"1"," ","ru_g","ru_o","ru_d">>, <<"1"," ","ru_m","ru_e","ru_s","ru_ya","ru_c">>, <<"2"," ","ru_l","ru_e","ru_t">>, <<"1",".","2",".","3">>,
      <<"ru_o","ru_k","."," ","5"," ","ru_s","ru_u","ru_t","ru_o","ru_k">>, <<"1","2"," ","ru_ch">>, <<"3"," ","ru_d">>, <<"0",".","5">> }

PeriodCells == {NaN} \cup TextsOfPieces(MaxPieces) \cup PeriodExamples

----------------------------------------------------------------------------
(* The lookup tables *)

\* column_mapping.get(col, col); a label is compared whole, so it is one string
column_mapping_get(col) ==
    CASE col = "Nebesnoe telo" -> "name"
      [] col = "Tip" -> "type"
      [] col = "Diametr (km)" -> "diameter_km"
      [] col = "Atm. davlenie (bar)" -> "atmosphere_pressure_bar"
      [] col = "Dlina sutok" -> "rotation_period"
      [] col = "Orbital'nyj period" -> "orbital_period"
      [] col = "Sostav atmosfery" -> "atmosphere_composition"
      [] col = "Sostav tela" -> "body_composition"
      [] col = "Min. temp. (C)" -> "min_temp_c"
      [] col = "Maks. temp. (C)" -> "max_temp_c"
      [] col = "Temp. terminatora (C)" -> "terminator_temp_c"
      [] col = "Shirina terminatora (km)" -> "terminator_width_km"
      [] col = "Uslovnyj terminator" -> "terminator_notes"
      [] OTHER -> col

Float(lit) == <<"float", lit>>

Elements(a, e, i, tilt) ==
    [semi_major_axis |-> a, eccentricity |-> e, inclination |-> i, axial_tilt |-> tilt]

orbital_params ==
    [id \in { <<"m","e","r","c","u","r","y">>, <<"v","e","n","u","s">>, <<"e","a","r","t","h">>, <<"m","a","r","s">>, <<"j","u","p","i","t","e","r">>, <<"s","a","t","u","r","n">>,
              <<"u","r","a","n","u","s">>, <<"n","e","p","t","u","n","e">>, <<"p","l","u","t","o">>, <<"m","o","o","n">> } |->
        CASE id = <<"m","e","r","c","u","r","y">> ->
                 Elements(Float("0.387098"), Float("0.205630"), Float("7.005"), Float("0.034"))
          [] id = <<"v","e","n","u","s">> ->
                 Elements(Float("0.723332"), Float("0.006772"), Float("3.39458"), Float("177.36"))
          [] id = <<"e","a","r","t","h">> ->
                 Elements(Float("1.000001018"), Float("0.0167086"), Float("0.00005"),
                          Float("23.4392811"))
          [] id = <<"m","a","r","s">> ->
                 Elements(Float("1.523679"), Float("0.0934"), Float("1.85"), Float("25.19"))
          [] id = <<"j","u","p","i","t","e","r">> ->
                 Elements(Float("5.2044"), Float("0.0489"), Float("1.303"), Float("3.13"))
          [] id = <<"s","a","t","u","r","n">> ->
                 Elements(Float("9.5826"), Float("0.0565"), Float("2.485"), Float("26.73"))
          [] id = <<"u","r","a","n","u","s">> ->
                 Elements(Float("19.2184"), Float("0.046381"), Float("0.773"), Float("97.77"))
          [] id = <<"n","e","p","t","u","n","e">> ->
                 Elements(Float("30.07"), Float("0.0113"), Float("1.767975"), Float("28.32"))
          [] id = <<"p","l","u","t","o">> ->
                 Elements(Float("39.482"), Float("0.2488"), Float("17.16"), Float("122.53"))
          [] id = <<"m","o","o","n">> ->
                 [semi_major_axis |-> Num(384400), eccentricity |-> Float("0.0549"),
                  inclination |-> Float("5.145"), axial_tilt |-> Float("1.5424"),
                  is_distance_km |-> True]
    ]

name_translations ==
    [ru \in { <<"RU_m","ru_e","ru_r","ru_k","ru_u","ru_r","ru_i","ru_j">>, <<"RU_v","ru_e","ru_n","ru_e","ru_r","ru_a">>, <<"RU_z","ru_e","ru_m","ru_l","ru_ya">>, <<"RU_l","ru_u","ru_n","ru_a">>, <<"RU_m","ru_a","ru_r","ru_s">>, <<"RU_f","ru_o","ru_b","ru_o","ru_s">>, <<"RU_d","ru_e","ru_j","ru_m","ru_o","ru_s">>,
              <<"RU_yu","ru_p","ru_i","ru_t","ru_e","ru_r">>, <<"RU_i","ru_o">>, <<"RU_e","ru_v","ru_r","ru_o","ru_p","ru_a">>, <<"RU_g","ru_a","ru_n","ru_i","ru_m","ru_e","ru_d">>, <<"RU_k","ru_a","ru_l","ru_l","ru_i","ru_s","ru_t","ru_o">>, <<"RU_s","ru_a","ru_t","ru_u","ru_r","ru_n">>,
              <<"RU_m","ru_i","ru_m","ru_a","ru_s">>, <<"RU_eh","ru_n","ru_c","ru_e","ru_l","ru_a","ru_d">>, <<"RU_t","ru_e","ru_f","ru_i","ru_ya">>, <<"RU_d","ru_i","ru_o","ru_n","ru_a">>, <<"RU_r","ru_e","ru_ya">>, <<"RU_t","ru_i","ru_t","ru_a","ru_n">>, <<"RU_ya","ru_p","ru_e","ru_t">>,
              <<"RU_u","ru_r","ru_a","ru_n">>, <<"RU_m","ru_i","ru_r","ru_a","ru_n","ru_d","ru_a">>, <<"RU_a","ru_r","ru_i","ru_eh","ru_l","ru_soft">>, <<"RU_u","ru_m","ru_b","ru_r","ru_i","ru_eh","ru_l","ru_soft">>, <<"RU_t","ru_i","ru_t","ru_a","ru_n","ru_i","ru_ya">>, <<"RU_o","ru_b","ru_e","ru_r","ru_o","ru_n">>,
              <<"RU_n","ru_e","ru_p","ru_t","ru_u","ru_n">>, <<"RU_t","ru_r","ru_i","ru_t","ru_o","ru_n">>, <<"RU_p","ru_l","ru_u","ru_t","ru_o","ru_n">>, <<"RU_h","ru_a","ru_r","ru_o","ru_n">> } |->
        CASE ru = <<"RU_m","ru_e","ru_r","ru_k","ru_u","ru_r","ru_i","ru_j">> -> <<"m","e","r","c","u","r","y">>
          [] ru = <<"RU_v","ru_e","ru_n","ru_e","ru_r","ru_a">> -> <<"v","e","n","u","s">>
          [] ru = <<"RU_z","ru_e","ru_m","ru_l","ru_ya">> -> <<"e","a","r","t","h">>
          [] ru = <<"RU_l","ru_u","ru_n","ru_a">> -> <<"m","o","o","n">>
          [] ru = <<"RU_m","ru_a","ru_r","ru_s">> -> <<"m","a","r","s">>
          [] ru = <<"RU_f","ru_o","ru_b","ru_o","ru_s">> -> <<"p","h","o","b","o","s">>
          [] ru = <<"RU_d","ru_e","ru_j","ru_m","ru_o","ru_s">> -> <<"d","e","i","m","o","s">>
          [] ru = <<"RU_yu","ru_p","ru_i","ru_t","ru_e","ru_r">> -> <<"j","u","p","i","t","e","r">>
          [] ru = <<"RU_i","ru_o">> -> <<"i","o">>
          [] ru = <<"RU_e","ru_v","ru_r","ru_o","ru_p","ru_a">> -> <<"e","u","r","o","p","a">>
          [] ru = <<"RU_g","ru_a","ru_n","ru_i","ru_m","ru_e","ru_d">> -> <<"g","a","n","y","m","e","d","e">>
          [] ru = <<"RU_k","ru_a","ru_l","ru_l","ru_i","ru_s","ru_t","ru_o">> -> <<"c","a","l","l","i","s","t","o">>
          [] ru = <<"RU_s","ru_a","ru_t","ru_u","ru_r","ru_n">> -> <<"s","a","t","u","r","n">>
          [] ru = <<"RU_m","ru_i","ru_m","ru_a","ru_s">> -> <<"m","i","m","a","s">>
          [] ru = <<"RU_eh","ru_n","ru_c","ru_e","ru_l","ru_a","ru_d">> -> <<"e","n","c","e","l","a","d","u","s">>
          [] ru = <<"RU_t","ru_e","ru_f","ru_i","ru_ya">> -> <<"t","e","t","h","y","s">>
          [] ru = <<"RU_d","ru_i","ru_o","ru_n","ru_a">> -> <<"d","i","o","n","e">>
          [] ru = <<"RU_r","ru_e","ru_ya">> -> <<"r","h","e","a">>
          [] ru = <<"RU_t","ru_i","ru_t","ru_a","ru_n">> -> <<"t","i","t","a","n">>
          [] ru = <<"RU_ya","ru_p","ru_e","ru_t">> -> <<"i","a","p","e","t","u","s">>
          [] ru = <<"RU_u","ru_r","ru_a","ru_n">> -> <<"u","r","a","n","u","s">>
          [] ru = <<"RU_m","ru_i","ru_r","ru_a","ru_n","ru_d","ru_a">> -> <<"m","i","r","a","n","d","a">>
          [] ru = <<"RU_a","ru_r","ru_i","ru_eh","ru_l","ru_soft">> -> <<"a","r","i","e","l">>
          [] ru = <<"RU_u","ru_m","ru_b","ru_r","ru_i","ru_eh","ru_l","ru_soft">> -> <<"u","m","b","r","i","e","l">>
          [] ru = <<"RU_t","ru_i","ru_t","ru_a","ru_n","ru_i","ru_ya">> -> <<"t","i","t","a","n","i","a">>
          [] ru = <<"RU_o","ru_b","ru_e","ru_r","ru_o","ru_n">> -> <<"o","b","e","r","o","n">>
          [] ru = <<"RU_n","ru_e","ru_p","ru_t","ru_u","ru_n">> -> <<"n","e","p","t","u","n","e">>
          [] ru = <<"RU_t","ru_r","ru_i","ru_t","ru_o","ru_n">> -> <<"t","r","i","t","o","n">>
          [] ru = <<"RU_p","ru_l","ru_u","ru_t","ru_o","ru_n">> -> <<"p","l","u","t","o">>
          [] ru = <<"RU_h","ru_a","ru_r","ru_o","ru_n">> -> <<"c","h","a","r","o","n">>
    ]

----------------------------------------------------------------------------
(* The row transform *)

\* row[key]: a label the table does not have raises KeyError
GetItem(r, key) == IF key \in DOMAIN r THEN r[key] ELSE Raise("KeyError")

get_parent(r) ==
    LET cell == GetItem(r, "type") IN
    IF IsRaise(cell) THEN cell
    ELSE LET type_str == Str(cell) IN
         IF Contains(type_str, <<"RU_s","ru_p","ru_u","ru_t","ru_n","ru_i","ru_k"," ","RU_z","ru_e","ru_m","ru_l","ru_i">>) THEN <<"e","a","r","t","h">>
         ELSE IF Contains(type_str, <<"RU_s","ru_p","ru_u","ru_t","ru_n","ru_i","ru_k"," ","RU_m","ru_a","ru_r","ru_s","ru_a">>) THEN <<"m","a","r","s">>
         ELSE IF Contains(type_str, <<"RU_s","ru_p","ru_u","ru_t","ru_n","ru_i","ru_k"," ","RU_yu","ru_p","ru_i","ru_t","ru_e","ru_r","ru_a">>) THEN <<"j","u","p","i","t","e","r">>
         ELSE IF Contains(type_str, <<"RU_s","ru_p","ru_u","ru_t","ru_n","ru_i","ru_k"," ","RU_s","ru_a","ru_t","ru_u","ru_r","ru_n","ru_a">>) THEN <<"s","a","t","u","r","n">>
         ELSE IF Contains(type_str, <<"RU_s","ru_p","ru_u","ru_t","ru_n","ru_i","ru_k"," ","RU_u","ru_r","ru_a","ru_n","ru_a">>) THEN <<"u","r","a","n","u","s">>
         ELSE IF Contains(type_str, <<"RU_s","ru_p","ru_u","ru_t","ru_n","ru_i","ru_k"," ","RU_n","ru_e","ru_p","ru_t","ru_u","ru_n","ru_a">>) THEN <<"n","e","p","t","u","n","e">>
         ELSE IF Contains(type_str, <<"RU_s","ru_p","ru_u","ru_t","ru_n","ru_i","ru_k"," ","RU_p","ru_l","ru_u","ru_t","ru_o","ru_n","ru_a">>) THEN <<"p","l","u","t","o">>
         ELSE IF type_str \in { <<"RU_p","ru_l","ru_a","ru_n","ru_e","ru_t","ru_a">>, <<"RU_k","ru_a","ru_r","ru_l","ru_i","ru_k","ru_o","ru_v","ru_a","ru_ya"," ","ru_p","ru_l","ru_a","ru_n","ru_e","ru_t","ru_a">> } THEN <<"s","u","n">>
         ELSE None

\* the first condition that skips a row: a missing name, or the notes heading
IsNotesOrBlank(name) == isna(name) \/ Contains(Str(name), <<"RU_p","ru_r","ru_i","ru_m","ru_e","ru_ch","ru_a","ru_n","ru_i","ru_ya">>)

NoteMarkers == { <<"1",".">>, <<"2",".">>, <<"3",".">>, <<"4",".">>, <<"5",".">>, <<"6",".">>, <<"7",".">>, <<"8",".">> }

\* the second condition that skips a row: a numbered note
IsNumberedNote(name_str) == \E c \in NoteMarkers : Contains(name_str, c)

\* name_translations.get(name_ru, name_ru.lower())
Translate(name_ru) ==
    IF name_ru \in DOMAIN name_translations THEN name_translations[name_ru]
    ELSE Lower(name_ru)

\* the 'type' field
TypeOf(name_en, r) ==
    IF name_en = <<"s","u","n">> THEN <<"s","t","a","r">>
    ELSE LET cell == GetItem(r, "type") IN
         IF IsRaise(cell) THEN cell
         ELSE IF cell = <<"RU_p","ru_l","ru_a","ru_n","ru_e","ru_t","ru_a">> THEN <<"p","l","a","n","e","t">>
         ELSE IF Contains(Str(cell), <<"RU_k","ru_a","ru_r","ru_l","ru_i","ru_k","ru_o","ru_v","ru_a","ru_ya">>) THEN <<"d","w","a","r","f","_","p","l","a","n","e","t">>
         ELSE <<"m","o","o","n">>

\* cell / 2
Half(cell) == IF IsNum(cell) THEN FracMul(cell, 1, 2) ELSE Raise("TypeError")

\* row[key] / 2 if pd.notna(row[key]) else None
HalfOrNone(r, key) ==
    LET cell == GetItem(r, key) IN
    IF IsRaise(cell) THEN cell ELSE IF notna(cell) THEN Half(cell) ELSE None

\* mutant of CellOrNone: a missing cell becomes 0, as for the pressure
CellOrNone_ZeroDefault(r, key) ==
    LET cell == GetItem(r, key) IN
    IF IsRaise(cell) THEN cell ELSE IF notna(cell) THEN cell ELSE Num(0)

\* row[key] if pd.notna(row[key]) else None
CellOrNone(r, key) ==
    LET cell == GetItem(r, key) IN
    IF IsRaise(cell) THEN cell ELSE IF notna(cell) THEN cell ELSE None

\* row[key] if pd.notna(row[key]) else 0
CellOrZero(r, key) ==
    LET cell == GetItem(r, key) IN
    IF IsRaise(cell) THEN cell ELSE IF notna(cell) THEN cell ELSE Num(0)

\* parse_period(row[key])
PeriodOf(r, key) ==
    LET cell == GetItem(r, key) IN
    IF IsRaise(cell) THEN cell ELSE parse_period(cell)

\* the dict literal `body`, its values in the order Python evaluates them
BodyLiteral(name_ru, name_en, r) ==
    [id |-> name_en,
     name |-> name_ru,
     name_en |-> Title(name_en),
     type |-> TypeOf(name_en, r),
     parent |-> get_parent(r),
     radius_km |-> HalfOrNone(r, "diameter_km"),
     diameter_km |-> CellOrNone(r, "diameter_km"),
     atmosphere_pressure_bar |-> CellOrZero(r, "atmosphere_pressure_bar"),
     rotation_period_days |-> PeriodOf(r, "rotation_period"),
     orbital_period_days |-> PeriodOf(r, "orbital_period"),
     min_temp_c |-> CellOrNone(r, "min_temp_c"),
     max_temp_c |-> CellOrNone(r, "max_temp_c"),
     terminator_temp_c |-> CellOrNone(r, "terminator_temp_c"),
     terminator_width_km |-> CellOrNone(r, "terminator_width_km")]

BodyKeyOrder ==
    <<"id", "name", "name_en", "type", "parent", "radius_km", "diameter_km",
      "atmosphere_pressure_bar", "rotation_period_days", "orbital_period_days",
      "min_temp_c", "max_temp_c", "terminator_temp_c", "terminator_width_km">>

\* the exception that ends the evaluation of the dict literal, if a value raises
FirstRaise(b) ==
    LET raising == {i \in 1..Len(BodyKeyOrder) : IsRaise(b[BodyKeyOrder[i]])} IN
    IF raising = {} THEN None
    ELSE b[BodyKeyOrder[CHOOSE i \in raising : \A j \in raising : i <= j]]

\* dict.update: the entry's keys are added, and replace the keys the dict has
Update(b, entry) ==
    [k \in DOMAIN b \cup DOMAIN entry |-> IF k \in DOMAIN entry THEN entry[k] ELSE b[k]]

\* mutant of AddOrbitalParams: the entry takes the place of the record
AddOrbitalParams_Replace(b, name_en) ==
    IF name_en \in DOMAIN orbital_params THEN orbital_params[name_en] ELSE b

\* if name_en in orbital_params: body.update(orbital_params[name_en])
AddOrbitalParams(b, name_en) ==
    IF name_en \in DOMAIN orbital_params THEN Update(b, orbital_params[name_en]) ELSE b

\* mutant of StoreKey: the id itself is the key
StoreKey_NoUpper(name_en) == name_en

\* the key a body is stored under
StoreKey(name_en) == Upper(name_en)

\* d[key] = value
SetItem(d, key, value) ==
    [k \in DOMAIN d \cup {key} |-> IF k = key THEN value ELSE d[k]]

Skip == <<"skip">>

\* `row` and `body` before the loop has bound them
NoRow == [name |-> None]
NoBody == [id |-> None]

\* one pass of the loop body over row r: Skip (continue), <<"raise", E>>, or
\* <<"store", key, body>>
LoopBody(r) ==
    LET name == GetItem(r, "name") IN
    IF IsRaise(name) THEN name
    ELSE IF IsNotesOrBlank(name) THEN Skip
    ELSE IF IsNumberedNote(Str(name)) THEN Skip
    ELSE LET name_ru == name
             name_en == Translate(name_ru)
             literal == BodyLiteral(name_ru, name_en, r)
         IN  IF FirstRaise(literal) # None THEN FirstRaise(literal)
             ELSE <<"store", StoreKey(name_en), AddOrbitalParams(literal, name_en)>>

\* the hand-written record of the Sun
SunRecord ==
    [id |-> <<"s","u","n">>,
     name |-> <<"RU_s","ru_o","ru_l","ru_n","ru_c","ru_e">>,
     name_en |-> <<"S","u","n">>,
     type |-> <<"s","t","a","r">>,
     parent |-> None,
     radius_km |-> Num(695700),
     diameter_km |-> Num(1391400),
     rotation_period_days |-> Float("25.38"),
     axial_tilt |-> Float("7.25"),
     surface_temp_k |-> Num(5778),
     min_temp_c |-> Num(5505),
     max_temp_c |-> Num(5505)]

\* mutant of AddSunTo: a record the rows stored under 'SUN' is kept
AddSunTo_KeepExisting(d) ==
    IF <<"S","U","N">> \in DOMAIN d THEN d
    ELSE [k \in DOMAIN d \cup { <<"S","U","N">> } |-> IF k = <<"S","U","N">> THEN SunRecord ELSE d[k]]

\* mutant of AddSunTo: the literal is merged into a record the rows stored under 'SUN'
AddSunTo_Merge(d) ==
    LET old == IF <<"S","U","N">> \in DOMAIN d THEN d[<<"S","U","N">>] ELSE SunRecord
        new == [f \in DOMAIN old \cup DOMAIN SunRecord |->
                   IF f \in DOMAIN SunRecord THEN SunRecord[f] ELSE old[f]]
    IN  [k \in DOMAIN d \cup { <<"S","U","N">> } |-> IF k = <<"S","U","N">> THEN new ELSE d[k]]

\* celestial_bodies['SUN'] = {...}
AddSunTo(d) == SetItem(d, <<"S","U","N">>, SunRecord)

\* json.dump: None is written as null, True as true, the rest as its own literal
JsonValue(v) == IF v = None THEN <<"null">> ELSE IF v = True THEN <<"true">> ELSE v

JsonDump(d) == [k \in DOMAIN d |-> [f \in DOMAIN d[k] |-> JsonValue(d[k][f])]]

----------------------------------------------------------------------------
(* The source table *)

\* the most rows the loop reads
MaxRows == 2

\* the header row of solar_system_data_updated.xlsx
SourceColumns ==
    <<"Nebesnoe telo", "Tip", "Diametr (km)", "Atm. davlenie (bar)", "Dlina sutok",
      "Orbital'nyj period", "Sostav atmosfery", "Sostav tela", "Min. temp. (C)",
      "Maks. temp. (C)", "Temp. terminatora (C)", "Shirina terminatora (km)",
      "Uslovnyj terminator">>

\* a header row whose category column has a label column_mapping does not know
UnmappedColumns == [SourceColumns EXCEPT ![2] = "Kategoriya"]

Headers == {SourceColumns, UnmappedColumns}

NameCells ==
    { NaN, <<"RU_z","ru_e","ru_m","ru_l","ru_ya">>, <<"RU_l","ru_u","ru_n","ru_a">>, <<"RU_c","ru_e","ru_r","ru_e","ru_r","ru_a">>, <<"S","u","n">>, <<"RU_p","ru_r","ru_i","ru_m","ru_e","ru_ch","ru_a","ru_n","ru_i","ru_ya">>,
      <<"1","."," ","RU_p","ru_r","ru_i","ru_m","ru_e","ru_ch","ru_a","ru_n","ru_i","ru_e">>, <<"9","."," ","RU_p","ru_r","ru_i","ru_m","ru_e","ru_ch","ru_a","ru_n","ru_i","ru_e">> }

TypeCells ==
    { NaN, <<"RU_p","ru_l","ru_a","ru_n","ru_e","ru_t","ru_a">>, <<"RU_k","ru_a","ru_r","ru_l","ru_i","ru_k","ru_o","ru_v","ru_a","ru_ya"," ","ru_p","ru_l","ru_a","ru_n","ru_e","ru_t","ru_a">>, <<"RU_s","ru_p","ru_u","ru_t","ru_n","ru_i","ru_k"," ","RU_z","ru_e","ru_m","ru_l","ru_i">>, <<"RU_z","ru_v","ru_e","ru_z","ru_d","ru_a">> }

\* the cells of the numeric and period columns: all filled, all empty, and a
\* rotation period whose first run of digits and dots is the dot of an abbreviation
CellProfiles ==
    { <<Num(12742), Num(1), <<"2","4"," ","ru_ch","ru_a","ru_s","ru_a">>, <<"3","6","5",".","2","5"," ","ru_d","ru_n","ru_e","ru_j">>, Num(-89), Num(57), Num(15), Num(100)>>,
      <<NaN, NaN, NaN, NaN, NaN, NaN, NaN, NaN>>,
      <<Num(12742), NaN, <<"ru_o","ru_k","."," ","5"," ","ru_s","ru_u","ru_t","ru_o","ru_k">>, <<"2"," ","ru_l","ru_e","ru_t">>, NaN, NaN, NaN, NaN>> }

\* a row of the sheet, cell by cell in the order of SourceColumns
SheetRow(name, type, p) ==
    <<name, type, p[1], p[2], p[3], p[4], NaN, NaN, p[5], p[6], p[7], p[8], NaN>>

SheetRows == {SheetRow(n, t, p) : n \in NameCells, t \in TypeCells, p \in CellProfiles}

\* the Series iterrows yields: the row's cells under the labels of df.columns
Series(cols, cells) ==
    [c \in {cols[i] : i \in 1..Len(cols)} |-> cells[CHOOSE i \in 1..Len(cols) : cols[i] = c]]

----------------------------------------------------------------------------
(* The script *)

Init ==
    /\ pc = "read_excel"
    /\ error = "none"
    /\ columns = <<>>
    /\ idx = 0
    /\ row = NoRow
    /\ body = NoBody
    /\ celestial_bodies = <<>>
    /\ output = <<>>
    /\ writes = 0
    /\ period_str = None
    /\ retval = None

\* df = pd.read_excel(...)
ReadExcel ==
    /\ pc = "read_excel"
    /\ \E h \in Headers : columns' = h
    /\ pc' = "rename"
    /\ UNCHANGED <<error, idx, row, body, celestial_bodies, output, writes, period_str, retval>>

\* pd.read_excel raises: the file is missing or unreadable
ReadExcelFails ==
    /\ pc = "read_excel"
    /\ pc' = "crashed"
    /\ error' = "FileNotFoundError"
    /\ UNCHANGED <<columns, idx, row, body, celestial_bodies, output, writes, period_str, retval>>

\* [column_mapping.get(col, col) for col in cols]
Renamed(cols) == [i \in 1..Len(cols) |-> column_mapping_get(cols[i])]

\* the loop body's outcome for every row the sheet may hold, under every header
RowOutcome ==
    [cols \in {Renamed(h) : h \in Headers}, cells \in SheetRows |->
        LoopBody(Series(cols, cells))]

\* df.columns = [column_mapping.get(col, col) for col in df.columns]; celestial_bodies = {}
RenameColumns ==
    /\ pc = "rename"
    /\ columns' = Renamed(columns)
    /\ celestial_bodies' = <<>>
    /\ pc' = "loop"
    /\ UNCHANGED <<error, idx, row, body, output, writes, period_str, retval>>

\* one iteration of `for idx, row in df.iterrows()`
IterRow ==
    /\ pc = "loop"
    /\ idx < MaxRows
    /\ \E cells \in SheetRows :
          LET r == Series(columns, cells)
              res == RowOutcome[columns, cells]
          IN  /\ row' = r
              /\ idx' = idx + 1
              /\ IF res = Skip
                 THEN UNCHANGED <<pc, error, body, celestial_bodies>>
                 ELSE IF IsRaise(res)
                 THEN /\ pc' = "crashed"
                      /\ error' = res[2]
                      /\ UNCHANGED <<body, celestial_bodies>>
                 ELSE /\ body' = res[3]
                      /\ celestial_bodies' = SetItem(celestial_bodies, res[2], res[3])
                      /\ UNCHANGED <<pc, error>>
    /\ UNCHANGED <<columns, output, writes, period_str, retval>>

\* the table has no more rows
EndOfRows ==
    /\ pc = "loop"
    /\ pc' = "add_sun"
    /\ UNCHANGED <<error, columns, idx, row, body, celestial_bodies, output, writes,
                   period_str, retval>>

\* celestial_bodies['SUN'] = {...}
AddSun ==
    /\ pc = "add_sun"
    /\ celestial_bodies' = AddSunTo(celestial_bodies)
    /\ pc' = "dump"
    /\ UNCHANGED <<error, columns, idx, row, body, output, writes, period_str, retval>>

\* mutant of AtDump: the output is also written from inside the loop
AtDump_InLoop == pc \in {"loop", "dump"}

\* where in the script the output file is opened and written
AtDump == pc = "dump"

\* with open(..., 'w') as f: json.dump(celestial_bodies, f, ...)
Dump ==
    /\ AtDump
    /\ output' = JsonDump(celestial_bodies)
    /\ writes' = writes + 1
    /\ pc' = "print"
    /\ UNCHANGED <<error, columns, idx, row, body, celestial_bodies, period_str, retval>>

\* open(..., 'w') raises: the file cannot be created
OpenFails ==
    /\ AtDump
    /\ pc' = "crashed"
    /\ error' = "OSError"
    /\ UNCHANGED <<columns, idx, row, body, celestial_bodies, output, writes, period_str, retval>>

\* the two print calls
PrintSummary ==
    /\ pc = "print"
    /\ pc' = "done"
    /\ UNCHANGED <<error, columns, idx, row, body, celestial_bodies, output, writes,
                   period_str, retval>>

Next ==
    \/ ReadExcel
    \/ ReadExcelFails
    \/ RenameColumns
    \/ IterRow
    \/ EndOfRows
    \/ AddSun
    \/ Dump
    \/ OpenFails
    \/ PrintSummary

Spec == Init /\ [][Next]_vars

----------------------------------------------------------------------------
(* The loop body applied to one row, over every combination of filled and   *)
(* empty numeric cells                                                      *)

\* what a numeric cell may hold: nothing, zero, a whole number, a number with
\* an odd half, text typed into a numeric column
NumericCells == {NaN, Num(0), Num(12742), Num(57), <<"ru_n","/","ru_d">>}

WideRows ==
    { <<n, <<"RU_s","ru_p","ru_u","ru_t","ru_n","ru_i","ru_k"," ","RU_z","ru_e","ru_m","ru_l","ru_i">>, d, a, p, NaN, NaN, NaN, lo, hi, tt, tw, NaN>> :
          n \in { <<"RU_z","ru_e","ru_m","ru_l","ru_ya">>, <<"RU_l","ru_u","ru_n","ru_a">>, <<"RU_c","ru_e","ru_r","ru_e","ru_r","ru_a">> },
          d \in NumericCells, a \in NumericCells, p \in {NaN, <<"2","4"," ","ru_ch","ru_a","ru_s","ru_a">>},
          lo \in NumericCells, hi \in NumericCells,
          tt \in NumericCells, tw \in NumericCells }

InitRow ==
    /\ pc = "loop"
    /\ error = "none"
    /\ columns = Renamed(SourceColumns)
    /\ idx = 1
    /\ row \in {Series(Renamed(SourceColumns), cells) : cells \in WideRows}
    /\ body = NoBody
    /\ celestial_bodies = <<>>
    /\ output = <<>>
    /\ writes = 0
    /\ period_str = None
    /\ retval = None

\* the loop body, run on the row the iteration has yielded
RunLoopBody ==
    /\ pc = "loop"
    /\ LET res == LoopBody(row)
       IN  IF res = Skip
           THEN /\ pc' = "next_row"
                /\ UNCHANGED <<error, body, celestial_bodies>>
           ELSE IF IsRaise(res)
           THEN /\ pc' = "crashed"
                /\ error' = res[2]
                /\ UNCHANGED <<body, celestial_bodies>>
           ELSE /\ body' = res[3]
                /\ celestial_bodies' = SetItem(celestial_bodies, res[2], res[3])
                /\ pc' = "next_row"
                /\ UNCHANGED error
    /\ UNCHANGED <<columns, idx, row, output, writes, period_str, retval>>

NextRow == RunLoopBody

SpecRow == InitRow /\ [][NextRow]_vars

----------------------------------------------------------------------------
(* parse_period applied to one cell *)

InitPeriod ==
    /\ pc = "parse_period"
    /\ error = "none"
    /\ columns = <<>>
    /\ idx = 0
    /\ row = NoRow
    /\ body = NoBody
    /\ celestial_bodies = <<>>
    /\ output = <<>>
    /\ writes = 0
    /\ period_str \in PeriodCells
    /\ retval = None

CallParsePeriod ==
    /\ pc = "parse_period"
    /\ retval' = parse_period(period_str)
    /\ pc' = "returned"
    /\ UNCHANGED <<error, columns, idx, row, body, celestial_bodies, output, writes,
                   period_str>>

NextPeriod == CallParsePeriod

SpecPeriod == InitPeriod /\ [][NextPeriod]_vars

----------------------------------------------------------------------------
(* Claims *)

\* the star record has been inserted: the collection is the final one
Final == pc \in {"dump", "print", "done"}

Keys == DOMAIN celestial_bodies

HasDigitThenPeriod(s) == \E i \in 1..(Len(s) - 1) : IsDigit(s[i]) /\ s[i + 1] = "."

\* C1: in the final collection every record that is not the star has a parent,
\* and the parent is 'sun' or the id of another record of the collection.
C1_ParentResolves ==
    Final =>
        \A k \in Keys :
            celestial_bodies[k].type # <<"s","t","a","r">> =>
                /\ celestial_bodies[k].parent # None
                /\ \/ celestial_bodies[k].parent = <<"s","u","n">>
                   \/ \E k2 \in Keys \ {k} :
                          celestial_bodies[k2].id = celestial_bodies[k].parent

\* the unit words of the claim, each with its factor num/den
ClaimUnits ==
    { << <<"ru_ch","ru_a","ru_s">>, 1, 24 >>, << <<"ru_d","ru_n","ru_e","ru_j">>, 1, 1 >>, << <<"ru_s","ru_u","ru_t","ru_o","ru_k">>, 1, 1 >>,
      << <<"ru_g","ru_o","ru_d">>, 36525, 100 >>, << <<"ru_l","ru_e","ru_t">>, 36525, 100 >>, << <<"ru_m","ru_e","ru_s","ru_ya","ru_c">>, 3044, 100 >> }

IsDecimal(t) == t # <<>> /\ (\A i \in 1..Len(t) : IsNumberChar(t[i])) /\ FloatAccepts(t)

\* s is a decimal number, a space and the word w
IsNumberThenWord(s, w) ==
    /\ Len(s) > Len(w) + 1
    /\ SubSeq(s, Len(s) - Len(w) + 1, Len(s)) = w
    /\ s[Len(s) - Len(w)] = " "
    /\ IsDecimal(SubSeq(s, 1, Len(s) - Len(w) - 1))

NumberBefore(s, w) == FloatValue(SubSeq(s, 1, Len(s) - Len(w) - 1))

\* C2: parse_period converts a text that carries one unit word by that unit's
\* factor (hour 1/24, day 1, year 365.25, month 30.44) and leaves a text without
\* unit at its value; "24 часа" is 1, "365.25 дней" 365.25, "1 год" 365.25 and
\* "1 месяц" 30.44; no day or hour marker is a substring of a year or month word.
C2_UnitFactors ==
    pc = "returned" =>
          /\ \A u \in ClaimUnits :
                 IsNumberThenWord(period_str, u[1]) =>
                     retval = FracMul(NumberBefore(period_str, u[1]), u[2], u[3])
          /\ IsDecimal(period_str) => retval = FloatValue(period_str)
          /\ period_str = <<"2","4"," ","ru_ch","ru_a","ru_s","ru_a">> => retval = Num(1)
          /\ period_str = <<"3","6","5",".","2","5"," ","ru_d","ru_n","ru_e","ru_j">> => retval = Frac(36525, 100)
          /\ period_str = <<"1"," ","ru_g","ru_o","ru_d">> => retval = Frac(36525, 100)
          /\ period_str = <<"1"," ","ru_m","ru_e","ru_s","ru_ya","ru_c">> => retval = Frac(3044, 100)
          /\ \A w \in YearMarkers \cup MonthMarkers :
                 IsNumberThenWord(period_str, w) =>
                     \A m \in HourMarkers \cup DayMarkers : ~Contains(w, m)

\* C3: no record of the collection comes from a row whose name is blank or holds
\* a digit immediately followed by a period.
C3_NoFootnoteRecord ==
    \A k \in Keys :
        /\ notna(celestial_bodies[k].name)
        /\ celestial_bodies[k].name # <<>>
        /\ ~HasDigitThenPeriod(celestial_bodies[k].name)

\* C4: parse_period never raises: it returns a number of days or None, and None
\* whenever the text holds no digit.
C4_NeverFails ==
    pc = "returned" =>
        /\ retval = None \/ IsNum(retval)
        /\ (isna(period_str) \/ \A i \in 1..Len(period_str) : ~IsDigit(period_str[i]))
               => retval = None

\* C5: every record sits under the upper-cased form of its own id, and no two
\* records of the collection have the same id.
C5_KeyedByUpperId ==
    /\ \A k \in Keys : k = Upper(celestial_bodies[k].id)
    /\ \A k1 \in Keys : \A k2 \in Keys :
           celestial_bodies[k1].id = celestial_bodies[k2].id => k1 = k2

\* a row named Sun was stored under 'SUN' beside a record with a Cyrillic key,
\* and the star record then took the place of the row's record
C5_Replaced ==
    /\ pc = "dump"
    /\ body.id = <<"s","u","n">>
    /\ body.name = <<"S","u","n">>
    /\ Keys = { <<"S","U","N">>, <<"RU_c","RU_e","RU_r","RU_e","RU_r","RU_a">> }
    /\ celestial_bodies[<<"S","U","N">>].name = <<"RU_s","ru_o","ru_l","ru_n","ru_c","ru_e">>
    /\ celestial_bodies[<<"RU_c","RU_e","RU_r","RU_e","RU_r","RU_a">>].id = <<"ru_c","ru_e","ru_r","ru_e","ru_r","ru_a">>

\* C6: in the final collection every record of type 'star' has no parent.
C6_StarHasNoParent ==
    Final =>
        \A k \in Keys :
            celestial_bodies[k].type = <<"s","t","a","r">> => celestial_bodies[k].parent = None

\* a row named Sun with the category of a planet was stored as a star with
\* parent 'sun', and the run has reached the final collection
C6_SunRowStored ==
    /\ Final
    /\ row.name = <<"S","u","n">>
    /\ body.id = <<"s","u","n">>
    /\ body.type = <<"s","t","a","r">>
    /\ body.parent = <<"s","u","n">>

SunKeys ==
    {"id", "name", "name_en", "type", "parent", "radius_km", "diameter_km",
     "rotation_period_days", "axial_tilt", "surface_temp_k", "min_temp_c", "max_temp_c"}

IsSunLiteral(rec) ==
    /\ DOMAIN rec = SunKeys
    /\ rec.id = <<"s","u","n">>
    /\ rec.name = <<"RU_s","ru_o","ru_l","ru_n","ru_c","ru_e">>
    /\ rec.name_en = <<"S","u","n">>
    /\ rec.type = <<"s","t","a","r">>
    /\ rec.parent = None
    /\ rec.radius_km = Num(695700)
    /\ rec.diameter_km = Num(1391400)
    /\ rec.rotation_period_days = Float("25.38")
    /\ rec.axial_tilt = Float("7.25")
    /\ rec.surface_temp_k = Num(5778)
    /\ rec.min_temp_c = Num(5505)
    /\ rec.max_temp_c = Num(5505)

\* C7: the final collection holds under 'SUN' the star record with exactly its
\* literal values, whatever the rows were, and inserting it changes no record
\* under another key.
C7_SunLiteral ==
    /\ [](Final => <<"S","U","N">> \in Keys /\ IsSunLiteral(celestial_bodies[<<"S","U","N">>]))
    /\ [][pc = "add_sun" =>
              \A k \in Keys \ { <<"S","U","N">> } :
                  k \in DOMAIN celestial_bodies' /\ celestial_bodies'[k] = celestial_bodies[k]]_vars

\* the rows stored a record under 'SUN' and one under another key before the
\* star record was inserted, and the output has been written
C7_SunRowOverwritten ==
    /\ pc = "done"
    /\ body.id = <<"s","u","n">>
    /\ body.diameter_km = Num(12742)
    /\ Cardinality(Keys) = 2

PassThroughFields ==
    {"diameter_km", "min_temp_c", "max_temp_c", "terminator_temp_c", "terminator_width_km"}

\* C8: in a row-derived record each pass-through field is None exactly when its
\* cell is missing and is the cell's value otherwise; radius_km is None exactly
\* when the diameter cell is missing and half the diameter otherwise; only
\* atmosphere_pressure_bar becomes 0 when its cell is missing.
C8_AbsencePreserved ==
    (pc = "next_row" /\ body.id # None) =>
        /\ \A k \in Keys : celestial_bodies[k] = body
        /\ \A f \in PassThroughFields :
               /\ body[f] = None <=> row[f] = NaN
               /\ row[f] # NaN => body[f] = row[f]
        /\ body.radius_km = None <=> row.diameter_km = NaN
        /\ row.diameter_km # NaN =>
               /\ IsNum(body.radius_km)
               /\ FracMul(body.radius_km, 2, 1) = row.diameter_km
        /\ row.atmosphere_pressure_bar = NaN => body.atmosphere_pressure_bar = Num(0)
        /\ row.atmosphere_pressure_bar # NaN =>
               body.atmosphere_pressure_bar = row.atmosphere_pressure_bar

\* a record built from a row with an empty diameter, an empty pressure, a
\* lowest temperature of zero and an odd highest temperature
C8_MixedRow ==
    /\ pc = "next_row"
    /\ body.id = <<"ru_c","ru_e","ru_r","ru_e","ru_r","ru_a">>
    /\ row.diameter_km = NaN
    /\ body.radius_km = None
    /\ row.atmosphere_pressure_bar = NaN
    /\ body.min_temp_c = Num(0)
    /\ body.max_temp_c = Num(57)
    /\ body.terminator_temp_c = None

\* C9: merging the orbital-element entry adds the entry's keys and leaves every
\* field of the dict literal at its value (the two share no key); a record whose
\* id has no entry is the dict literal unchanged.
C9_MergeIsAdditive ==
    (pc = "next_row" /\ Keys # {}) =>
        LET literal == BodyLiteral(row.name, Translate(row.name), row)
            stored == celestial_bodies[CHOOSE k \in Keys : TRUE]
        IN
        /\ stored = body
        /\ \A f \in DOMAIN literal : f \in DOMAIN stored /\ stored[f] = literal[f]
        /\ literal.id \in DOMAIN orbital_params =>
               LET entry == orbital_params[literal.id] IN
               /\ DOMAIN stored = DOMAIN literal \cup DOMAIN entry
               /\ DOMAIN entry \cap DOMAIN literal = {}
               /\ \A f \in DOMAIN entry : stored[f] = entry[f]
        /\ literal.id \notin DOMAIN orbital_params => DOMAIN stored = DOMAIN literal

\* the record of the Moon, whose entry has a fifth key, built from a filled row
C9_MoonMerged ==
    /\ pc = "next_row"
    /\ body.id = <<"m","o","o","n">>
    /\ "is_distance_km" \in DOMAIN body
    /\ body.semi_major_axis = Num(384400)
    /\ body.diameter_km = Num(12742)
    /\ body.rotation_period_days = Num(1)

\* C10: the output is written at most once, only after the rows were processed
\* and the star record inserted, and it holds the collection, which does not
\* change afterwards; a run that fails while loading or in a row writes nothing.
C10_WrittenOnceAtEnd ==
    /\ writes <= 1
    /\ writes = 1 =>
           /\ pc \in {"print", "done"}
           /\ <<"S","U","N">> \in Keys
           /\ output = JsonDump(celestial_bodies)
    /\ (pc = "crashed" /\ error \in {"FileNotFoundError", "KeyError", "ValueError", "TypeError"})
           => writes = 0 /\ output = <<>>

\* a run over two stored rows that has written its output
C10_Written ==
    /\ pc = "done"
    /\ writes = 1
    /\ idx = 2
    /\ Cardinality(Keys) = 3
    /\ output # <<>>

=============================================================================
